---- MODULE Spec2Model ----
(***************************************************************************)
(* typed-store: the Store actor of crates/typed-store/src/lib.rs.          *)
(*                                                                         *)
(* Store::new spawns one task that owns the backend map (keyed_db) and the *)
(* obligation table (obligations) and drains a bounded mpsc channel of     *)
(* StoreCommand values, one command at a time.  Store handles (clones of   *)
(* the Sender) enqueue commands and, for the commands that carry a oneshot *)
(* reply slot, await the reply.                                            *)
(***************************************************************************)
EXTENDS Integers, Sequences, FiniteSets, TLC

(* ------------------------------ bounds -------------------------------- *)
\* number of distinct keys
NumKeys == 2
\* number of distinct values
NumValues == 2
\* longest batch of a write_all / remove_all / read_all call
MaxBatch == 2
\* number of tasks that hold a Store handle
NumHandles == 3
\* number of commands issued in one run (a command's id is its rank)
MaxCmds == 3
\* capacity of the command channel in the model (channel(100) in the code)
QueueCap == 2

Keys == 1..NumKeys
Values == 1..NumValues
Handles == 1..NumHandles
Ids == 1..MaxCmds

\* Option::None of a value; the values are 1..NumValues
None == 0

(* ----------------------------- commands ------------------------------- *)
\* The variants of StoreCommand.
WriteOp == "Write"
WriteAllOp == "WriteAll"
DeleteOp == "Delete"
DeleteAllOp == "DeleteAll"
ReadOp == "Read"
ReadAllOp == "ReadAll"
NotifyReadOp == "NotifyRead"

\* the variants that carry a oneshot::Sender
ReplyOps == {WriteAllOp, DeleteAllOp, ReadOp, ReadAllOp, NotifyReadOp}
\* the variants that touch the backend map
MutationOps == {WriteOp, WriteAllOp, DeleteOp, DeleteAllOp}

\* the value the i-th pair of a write_all batch carries
BatchValue(i) == ((i - 1) % NumValues) + 1

\* Vec arguments: a batch is a sequence of <<key, value>> pairs over every
\* sequence of 1 to MaxBatch keys (a key may repeat).  The i-th pair of a
\* write_all batch carries BatchValue(i), so that the pairs of one batch
\* differ in value; the key batches of DeleteAll and ReadAll carry None.
KeySeqs == UNION {[1..n -> Keys] : n \in 1..MaxBatch}
WriteBatches == {[i \in 1..Len(ks) |-> <<ks[i], BatchValue(i)>>] : ks \in KeySeqs}
KeyBatches == {[i \in 1..Len(ks) |-> <<ks[i], None>>] : ks \in KeySeqs}

\* What a handle remembers of the call it made before this one.
NoCall == [op |-> "NoCall", key |-> 0, val |-> None, id |-> 0]

\* A StoreCommand: op is the variant, key/val the single-key arguments,
\* items the Vec argument, id the rank of the call (it names the oneshot
\* slot of the command), after the write or remove of the same key that
\* the calling handle made just before a read (NoCall otherwise).
StoreCommand(op, key, val, items, id, after) ==
    [op |-> op, key |-> key, val |-> val, items |-> items,
     id |-> id, after |-> after]

\* the keys of a batch, in iteration order
RECURSIVE BatchKeys(_)
BatchKeys(items) ==
    IF items = <<>> THEN {} ELSE {Head(items)[1]} \cup BatchKeys(Tail(items))

\* whether command c names key k
Touches(c, k) ==
    IF c.op \in {WriteOp, DeleteOp, ReadOp, NotifyReadOp} THEN c.key = k
    ELSE k \in BatchKeys(c.items)

(* --------------------------- backend map ------------------------------ *)
\* rocks::DBMap behind the Map trait: get / insert / remove and their batch
\* variants.  Every call returns a Result; a failed call changes nothing and
\* a batch is applied in iteration order, all or nothing.
DbGet(db, k) == db[k]

DbInsert(db, k, v) == [db EXCEPT ![k] = v]

DbRemove(db, k) == [db EXCEPT ![k] = None]

RECURSIVE DbMultiInsert(_, _)
DbMultiInsert(db, items) ==
    IF items = <<>> THEN db
    ELSE DbMultiInsert(DbInsert(db, Head(items)[1], Head(items)[2]), Tail(items))

RECURSIVE DbMultiRemove(_, _)
DbMultiRemove(db, items) ==
    IF items = <<>> THEN db
    ELSE DbMultiRemove(DbRemove(db, Head(items)[1]), Tail(items))

DbMultiGet(db, items) == [i \in 1..Len(items) |-> db[items[i][1]]]

(* ---------------------------- reply slots ----------------------------- *)
\* A oneshot channel.  st: "unused" (not created yet), "empty" (created, no
\* value sent), "ok" / "err" (a StoreResult was sent), "closed" (the Sender
\* was dropped without sending), "taken" (the Receiver returned the value),
\* "abandoned" (the Receiver was dropped before a value was sent).
\* val is the payload of an Ok: <<v>> for Some(v), <<None>> for None, <<>>
\* for (), and the Vec of a read_all.
Slot(st, val) == [st |-> st, val |-> val]
Unused == Slot("unused", <<>>)
Empty == Slot("empty", <<>>)
Closed == Slot("closed", <<>>)
Taken == Slot("taken", <<>>)
Ok(val) == Slot("ok", val)
Err == Slot("err", <<>>)
Abandoned == Slot("abandoned", <<>>)

\* the obligation table with no key
NoObligations == [k \in {} |-> <<>>]

RemoveKey(f, k) == [x \in (DOMAIN f) \ {k} |-> f[x]]

VARIABLES
    keyed_db,     \* the backend map: key -> value or None
    obligations,  \* HashMap<Key, VecDeque<oneshot::Sender>>: key -> ids
    channel,      \* the commands in the mpsc channel, oldest first
    alive,        \* whether the actor task runs
    slot,         \* id -> the oneshot channel of command id
    sends,        \* id -> number of Sender::send calls made on slot id
    pc,           \* handle -> "idle" | "sending" | "awaiting" | "panicked",
                  \* or "cancelled" (SpecWithCancel)
    pending,      \* handle -> the command of its current call
    last,         \* handle -> the call it made before the current one
    issued,       \* number of commands issued so far
    applied,      \* the dequeued mutations applied one at a time to the initial map
    lastOk,       \* whether the backend call of the last processed command succeeded
    fulfilled,    \* the waiters the last command resolved, in order of their send
    unserved,     \* <<id, key>> of the waiters registered while the key was absent
                  \* that no Write or Delete of the key has been processed after
    lastMut,      \* key -> id and outcome of the last processed mutation naming it
    cleanDel      \* key -> the Deletes of it processed after the last write to it

vars == <<keyed_db, obligations, channel, alive, slot, sends, pc, pending,
          last, issued, applied, lastOk, fulfilled, unserved, lastMut, cleanDel>>

(* --------------------- the actor's processing step --------------------- *)
\* The state the spawned task owns, as one record: db (keyed_db),
\* obligations, slot and sends (the oneshot channels it holds Senders of)
\* and fulfilled (the waiters resolved while processing one command).
ActorState(db, obl, sl, sn, ful) ==
    [db |-> db, obligations |-> obl, slot |-> sl, sends |-> sn, fulfilled |-> ful]

\* oneshot::Sender::send(r) on slot id, its result ignored (let _ = ...): the
\* value is stored unless the Receiver is gone.
Send(A, id, r) ==
    [A EXCEPT !.slot[id] = IF @.st = "empty" THEN r ELSE @,
              !.sends[id] = @ + 1]

\* PopAll with pop_back in place of pop_front: the newest waiter first
RECURSIVE PopAllNewestFirst(_, _, _, _)
PopAllNewestFirst(A, k, senders, r) ==
    IF senders = <<>> THEN A
    ELSE PopAllNewestFirst(
             [Send(A, senders[Len(senders)], r) EXCEPT
                 !.fulfilled = Append(@, [id |-> senders[Len(senders)], key |-> k])],
             k, SubSeq(senders, 1, Len(senders) - 1), r)

\* PopAll with the result of send propagated (s.send(r)?): the loop ends at
\* the first Sender whose Receiver is gone
RECURSIVE PopAllStopsAtAbandoned(_, _, _, _)
PopAllStopsAtAbandoned(A, k, senders, r) ==
    IF senders = <<>> \/ A.slot[Head(senders)].st = "abandoned" THEN A
    ELSE PopAllStopsAtAbandoned(
             [Send(A, Head(senders), r) EXCEPT
                 !.fulfilled = Append(@, [id |-> Head(senders), key |-> k])],
             k, Tail(senders), r)

\* while let Some(s) = senders.pop_front() { let _ = s.send(r); }
RECURSIVE PopAll(_, _, _, _)
PopAll(A, k, senders, r) ==
    IF senders = <<>> THEN A
    ELSE PopAll([Send(A, Head(senders), r) EXCEPT
                    !.fulfilled = Append(@, [id |-> Head(senders), key |-> k])],
                k, Tail(senders), r)

\* Notify with obligations.get in place of obligations.remove: the senders
\* are used and their entry stays in the table
NotifyKeepsEntry(A, k, r) ==
    IF k \in DOMAIN A.obligations
    THEN PopAll(A, k, A.obligations[k], r)
    ELSE A

\* Notify with obligations.get_mut in place of obligations.remove: the
\* queue is emptied and its entry stays in the table
NotifyLeavesEmptyQueue(A, k, r) ==
    IF k \in DOMAIN A.obligations
    THEN PopAll([A EXCEPT !.obligations[k] = <<>>], k, A.obligations[k], r)
    ELSE A

\* if let Some(mut senders) = obligations.remove(&key) { ...pop them all... }
Notify(A, k, r) ==
    IF k \in DOMAIN A.obligations
    THEN PopAll([A EXCEPT !.obligations = RemoveKey(@, k)], k, A.obligations[k], r)
    ELSE A

\* for key in keys { if let Some(senders) = obligations.remove(&key) {...} }
RECURSIVE NotifyBatch(_, _, _)
NotifyBatch(A, items, r) ==
    IF items = <<>> THEN A
    ELSE NotifyBatch(Notify(A, Head(items)[1], r), Tail(items), r)

\* obligations.entry(key).or_insert_with(VecDeque::new).push_back(sender)
PushBack(obl, k, id) ==
    IF k \in DOMAIN obl THEN [obl EXCEPT ![k] = Append(@, id)]
    ELSE [x \in (DOMAIN obl) \cup {k} |-> IF x = k THEN <<id>> ELSE obl[x]]

\* the Write arm sending Ok(None) as the other arms do
WriteArmSendsNone(A, c, ok) ==
    Notify([A EXCEPT !.db = IF ok THEN DbInsert(@, c.key, c.val) ELSE @],
           c.key, Ok(<<None>>))

\* the Write arm without its keyed_db.insert
WriteArmSkipsInsert(A, c, ok) ==
    Notify(A, c.key, Ok(<<c.val>>))

\* the Write arm notifying only when keyed_db.insert succeeded
WriteArmNotifiesIfOk(A, c, ok) ==
    IF ok THEN Notify([A EXCEPT !.db = DbInsert(@, c.key, c.val)], c.key, Ok(<<c.val>>))
    ELSE A

\* StoreCommand::Write(key, value); ok is the outcome of keyed_db.insert
WriteArm(A, c, ok) ==
    Notify([A EXCEPT !.db = IF ok THEN DbInsert(@, c.key, c.val) ELSE @],
           c.key, Ok(<<c.val>>))

\* the WriteAll arm answering Ok(()) whatever multi_insert returned
WriteAllArmAlwaysOk(A, c, ok) ==
    LET B == [A EXCEPT !.db = IF ok THEN DbMultiInsert(@, c.items) ELSE @]
        C == IF ok THEN NotifyBatch(B, c.items, Ok(<<None>>)) ELSE B
    IN  Send(C, c.id, Ok(<<>>))

\* NotifyBatch sending to the waiters of each key the value of its pair
RECURSIVE NotifyBatchValues(_, _)
NotifyBatchValues(A, items) ==
    IF items = <<>> THEN A
    ELSE NotifyBatchValues(Notify(A, Head(items)[1], Ok(<<Head(items)[2]>>)), Tail(items))

\* the WriteAll arm resolving the waiters with the values written
WriteAllArmSendsValues(A, c, ok) ==
    LET B == [A EXCEPT !.db = IF ok THEN DbMultiInsert(@, c.items) ELSE @]
        C == IF ok THEN NotifyBatchValues(B, c.items) ELSE B
    IN  Send(C, c.id, IF ok THEN Ok(<<>>) ELSE Err)

\* the WriteAll arm without its loop over the obligations of the batch
WriteAllArmKeepsWaiters(A, c, ok) ==
    LET B == [A EXCEPT !.db = IF ok THEN DbMultiInsert(@, c.items) ELSE @]
    IN  Send(B, c.id, IF ok THEN Ok(<<>>) ELSE Err)

\* StoreCommand::WriteAll(key_values, sender); ok: keyed_db.multi_insert
WriteAllArm(A, c, ok) ==
    LET B == [A EXCEPT !.db = IF ok THEN DbMultiInsert(@, c.items) ELSE @]
        C == IF ok THEN NotifyBatch(B, c.items, Ok(<<None>>)) ELSE B
    IN  Send(C, c.id, IF ok THEN Ok(<<>>) ELSE Err)

\* the Delete arm without its keyed_db.remove
DeleteArmSkipsRemove(A, c, ok) ==
    Notify(A, c.key, Ok(<<None>>))

\* StoreCommand::Delete(key); ok is the outcome of keyed_db.remove
DeleteArm(A, c, ok) ==
    Notify([A EXCEPT !.db = IF ok THEN DbRemove(@, c.key) ELSE @],
           c.key, Ok(<<None>>))

\* the DeleteAll arm removing the first key of the batch only
DeleteAllArmFirstKeyOnly(A, c, ok) ==
    LET B == [A EXCEPT !.db = IF ok THEN DbRemove(@, c.items[1][1]) ELSE @]
        C == IF ok THEN NotifyBatch(B, c.items, Ok(<<None>>)) ELSE B
    IN  Send(C, c.id, IF ok THEN Ok(<<>>) ELSE Err)

\* the DeleteAll arm without its `if response.is_ok()`
DeleteAllArmAlwaysNotifies(A, c, ok) ==
    LET B == [A EXCEPT !.db = IF ok THEN DbMultiRemove(@, c.items) ELSE @]
        C == NotifyBatch(B, c.items, Ok(<<None>>))
    IN  Send(C, c.id, IF ok THEN Ok(<<>>) ELSE Err)

\* StoreCommand::DeleteAll(keys, sender); ok: keyed_db.multi_remove
DeleteAllArm(A, c, ok) ==
    LET B == [A EXCEPT !.db = IF ok THEN DbMultiRemove(@, c.items) ELSE @]
        C == IF ok THEN NotifyBatch(B, c.items, Ok(<<None>>)) ELSE B
    IN  Send(C, c.id, IF ok THEN Ok(<<>>) ELSE Err)

\* StoreCommand::Read(key, sender); ok is the outcome of keyed_db.get
ReadArm(A, c, ok) ==
    Send(A, c.id, IF ok THEN Ok(<<DbGet(A.db, c.key)>>) ELSE Err)

\* StoreCommand::ReadAll(keys, sender); ok: keyed_db.multi_get
ReadAllArm(A, c, ok) ==
    Send(A, c.id, IF ok THEN Ok(DbMultiGet(A.db, c.items)) ELSE Err)

\* the NotifyRead arm without its else: the sender is queued in any case
NotifyReadArmAlwaysQueues(A, c, ok) ==
    LET response == IF ok THEN Ok(<<DbGet(A.db, c.key)>>) ELSE Err
        B == IF response.st = "ok" /\ response.val[1] # None
             THEN Send(A, c.id, response) ELSE A
    IN  [B EXCEPT !.obligations = PushBack(@, c.key, c.id)]

\* StoreCommand::NotifyRead(key, sender); ok is the outcome of keyed_db.get
NotifyReadArm(A, c, ok) ==
    LET response == IF ok THEN Ok(<<DbGet(A.db, c.key)>>) ELSE Err
    IN  IF response.st = "ok" /\ response.val[1] # None
        THEN Send(A, c.id, response)
        ELSE [A EXCEPT !.obligations = PushBack(@, c.key, c.id)]

\* match command { ... }
Arm(A, c, ok) ==
    CASE c.op = WriteOp -> WriteArm(A, c, ok)
      [] c.op = WriteAllOp -> WriteAllArm(A, c, ok)
      [] c.op = DeleteOp -> DeleteArm(A, c, ok)
      [] c.op = DeleteAllOp -> DeleteAllArm(A, c, ok)
      [] c.op = ReadOp -> ReadArm(A, c, ok)
      [] c.op = ReadAllOp -> ReadAllArm(A, c, ok)
      [] c.op = NotifyReadOp -> NotifyReadArm(A, c, ok)

(* ------------------- the sequential reference map --------------------- *)
\* the value the last pair of the batch that names k gives it
LastVal(items, k) ==
    LET i == CHOOSE j \in 1..Len(items) :
                 /\ items[j][1] = k
                 /\ \A l \in (j + 1)..Len(items) : items[l][1] # k
    IN  items[i][2]

\* One mutation applied to map m on its own; a command whose backend call
\* fails (ok = FALSE) leaves the map as it was.
ApplyCommand(m, c, ok) ==
    IF ~ok THEN m
    ELSE CASE c.op = WriteOp -> [m EXCEPT ![c.key] = c.val]
           [] c.op = DeleteOp -> [m EXCEPT ![c.key] = None]
           [] c.op = WriteAllOp ->
                [k \in Keys |-> IF k \in BatchKeys(c.items)
                                THEN LastVal(c.items, k) ELSE m[k]]
           [] c.op = DeleteAllOp ->
                [k \in Keys |-> IF k \in BatchKeys(c.items) THEN None ELSE m[k]]
           [] OTHER -> m

(* ------------------------------- Init --------------------------------- *)
NoCmd == [op |-> "NoCmd", key |-> 0, val |-> None, items |-> <<>>,
          id |-> 0, after |-> NoCall, ok |-> TRUE]

\* the call a handle awaits the reply of: the arguments of the command are
\* moved into the channel, the handle keeps the Receiver of slot id
Awaited(c) == [NoCmd EXCEPT !.op = c.op, !.key = c.key, !.id = c.id, !.after = c.after]

\* Store::new: an empty obligation table, an empty channel(100), the task
\* spawned; the DBMap handed in holds no key yet.
Init ==
    /\ keyed_db = [k \in Keys |-> None]
    /\ obligations = NoObligations
    /\ channel = <<>>
    /\ alive = TRUE
    /\ slot = [i \in Ids |-> Unused]
    /\ sends = [i \in Ids |-> 0]
    /\ pc = [h \in Handles |-> "idle"]
    /\ pending = [h \in Handles |-> NoCmd]
    /\ last = [h \in Handles |-> NoCall]
    /\ issued = 0
    /\ applied = [k \in Keys |-> None]
    /\ lastOk = TRUE
    /\ fulfilled = <<>>
    /\ unserved = {}
    /\ lastMut = [k \in Keys |-> [id |-> 0, ok |-> TRUE]]
    /\ cleanDel = [k \in Keys |-> {}]

(* --------------------------- Store handles ---------------------------- *)
\* self.channel.send(command).await of handle h, after oneshot::channel()
\* for the commands that carry a reply: the command enters the channel at
\* once when there is room, the caller is suspended when the channel is
\* full, and the send fails (the caller panics) when the actor is gone.
\* Handles are clones of one Sender and differ in name only: they are named
\* in the order of their first call (handle h makes its first call after
\* every handle below it has made one).
Call(h, op, key, val, items) ==
    /\ pc[h] = "idle"
    /\ issued < MaxCmds
    /\ \A g \in Handles : g < h => pc[g] # "idle" \/ last[g] # NoCall
    /\ LET c == StoreCommand(op, key, val, items, issued + 1,
                             IF op = ReadOp /\ last[h].key = key THEN last[h] ELSE NoCall)
       IN  /\ issued' = issued + 1
           /\ slot' = IF op \in ReplyOps THEN [slot EXCEPT ![c.id] = Empty] ELSE slot
           /\ last' = [last EXCEPT ![h] =
                          IF op \in {WriteOp, DeleteOp}
                          THEN [op |-> op, key |-> key, val |-> val, id |-> c.id]
                          ELSE [NoCall EXCEPT !.op = "Other"]]
           /\ IF ~alive
              THEN /\ pc' = [pc EXCEPT ![h] = "panicked"]
                   /\ UNCHANGED <<channel, pending>>
              ELSE IF Len(channel) < QueueCap
              THEN /\ channel' = Append(channel, c)
                   /\ pc' = [pc EXCEPT ![h] = IF op \in ReplyOps THEN "awaiting" ELSE "idle"]
                   /\ pending' = [pending EXCEPT ![h] = IF op \in ReplyOps THEN Awaited(c) ELSE NoCmd]
              ELSE /\ pc' = [pc EXCEPT ![h] = "sending"]
                   /\ pending' = [pending EXCEPT ![h] = c @@ [ok |-> TRUE]]
                   /\ UNCHANGED channel
    /\ UNCHANGED <<keyed_db, obligations, alive, sends, applied, lastOk, fulfilled, unserved, lastMut, cleanDel>>

write ==
    \E h \in Handles, k \in Keys, v \in Values : Call(h, WriteOp, k, v, <<>>)

write_all ==
    \E h \in Handles, items \in WriteBatches : Call(h, WriteAllOp, 0, None, items)

remove ==
    \E h \in Handles, k \in Keys : Call(h, DeleteOp, k, None, <<>>)

remove_all ==
    \E h \in Handles, items \in KeyBatches : Call(h, DeleteAllOp, 0, None, items)

read ==
    \E h \in Handles, k \in Keys : Call(h, ReadOp, k, None, <<>>)

read_all ==
    \E h \in Handles, items \in KeyBatches : Call(h, ReadAllOp, 0, None, items)

notify_read ==
    \E h \in Handles, k \in Keys : Call(h, NotifyReadOp, k, None, <<>>)

\* the command without the outcome field a pending call carries
AsCommand(p) ==
    StoreCommand(p.op, p.key, p.val, p.items, p.id, p.after)

\* Admit without the wait for room: the command enters a full channel
AdmitWithoutRoom ==
    \E h \in Handles :
        /\ pc[h] = "sending"
        /\ alive
        /\ channel' = Append(channel, AsCommand(pending[h]))
        /\ pc' = [pc EXCEPT ![h] = IF pending[h].op \in ReplyOps THEN "awaiting" ELSE "idle"]
        /\ pending' = [pending EXCEPT ![h] = IF pending[h].op \in ReplyOps THEN Awaited(@) ELSE NoCmd]
        /\ UNCHANGED <<keyed_db, obligations, alive, slot, sends, last, issued,
                       applied, lastOk, fulfilled, unserved, lastMut, cleanDel>>

\* A suspended send completes: the channel has room again.
Admit ==
    \E h \in Handles :
        /\ pc[h] = "sending"
        /\ alive
        /\ Len(channel) < QueueCap
        /\ channel' = Append(channel, AsCommand(pending[h]))
        /\ pc' = [pc EXCEPT ![h] = IF pending[h].op \in ReplyOps THEN "awaiting" ELSE "idle"]
        /\ pending' = [pending EXCEPT ![h] = IF pending[h].op \in ReplyOps THEN Awaited(@) ELSE NoCmd]
        /\ UNCHANGED <<keyed_db, obligations, alive, slot, sends, last, issued,
                       applied, lastOk, fulfilled, unserved, lastMut, cleanDel>>

\* SendFails with the error of the send ignored: the call returns
SendFailsReturns ==
    \E h \in Handles :
        /\ pc[h] = "sending"
        /\ ~alive
        /\ pc' = [pc EXCEPT ![h] = "idle"]
        /\ pending' = [pending EXCEPT ![h] = NoCmd]
        /\ UNCHANGED <<keyed_db, obligations, channel, alive, slot, sends, last,
                       issued, applied, lastOk, fulfilled, unserved, lastMut, cleanDel>>

\* A suspended send fails: the receiving half of the channel is gone.
SendFails ==
    \E h \in Handles :
        /\ pc[h] = "sending"
        /\ ~alive
        /\ pc' = [pc EXCEPT ![h] = "panicked"]
        /\ pending' = [pending EXCEPT ![h] = NoCmd]
        /\ UNCHANGED <<keyed_db, obligations, channel, alive, slot, sends, last,
                       issued, applied, lastOk, fulfilled, unserved, lastMut, cleanDel>>

\* receiver.await returns the reply: the call returns it.
Receive ==
    \E h \in Handles :
        /\ pc[h] = "awaiting"
        /\ slot[pending[h].id].st \in {"ok", "err"}
        /\ slot' = [slot EXCEPT ![pending[h].id] = Taken]
        /\ pc' = [pc EXCEPT ![h] = "idle"]
        /\ pending' = [pending EXCEPT ![h] = NoCmd]
        /\ UNCHANGED <<keyed_db, obligations, channel, alive, sends, last, issued,
                       applied, lastOk, fulfilled, unserved, lastMut, cleanDel>>

\* receiver.await returns RecvError (the Sender was dropped): expect panics.
ReceiveFails ==
    \E h \in Handles :
        /\ pc[h] = "awaiting"
        /\ slot[pending[h].id].st = "closed"
        /\ pc' = [pc EXCEPT ![h] = "panicked"]
        /\ pending' = [pending EXCEPT ![h] = NoCmd]
        /\ UNCHANGED <<keyed_db, obligations, channel, alive, slot, sends, last,
                       issued, applied, lastOk, fulfilled, unserved, lastMut, cleanDel>>

\* The task of a call that awaits its reply is cancelled or dropped: the
\* Receiver of the slot is dropped with it, and the task makes no call any
\* more.
Abandon ==
    \E h \in Handles :
        /\ pc[h] = "awaiting"
        /\ slot[pending[h].id] = Empty
        /\ slot' = [slot EXCEPT ![pending[h].id] = Abandoned]
        /\ pc' = [pc EXCEPT ![h] = "cancelled"]
        /\ pending' = [pending EXCEPT ![h] = NoCmd]
        /\ UNCHANGED <<keyed_db, obligations, channel, alive, sends, last, issued,
                       applied, lastOk, fulfilled, unserved, lastMut, cleanDel>>

(* ------------------------------ the actor ----------------------------- *)
\* The waiters that still expect their first Write or Delete: a NotifyRead
\* processed while its key is absent joins, a Write or Delete of a key
\* serves every waiter of that key.
Unserved(u, db, c) ==
    IF c.op = NotifyReadOp /\ db[c.key] = None THEN u \cup {<<c.id, c.key>>}
    ELSE IF c.op \in {WriteOp, DeleteOp} THEN {w \in u : w[2] # c.key}
    ELSE u

\* One turn of `while let Some(command) = rx.recv().await { match ... }`:
\* the oldest command leaves the channel and its arm runs to the end, the
\* backend call of the arm succeeding or failing.
Process(op) ==
    /\ alive
    /\ channel # <<>>
    /\ Head(channel).op = op
    /\ \E ok \in BOOLEAN :
        LET c == Head(channel)
            A == Arm(ActorState(keyed_db, obligations, slot, sends, <<>>), c, ok)
        IN  /\ keyed_db' = A.db
            /\ obligations' = A.obligations
            /\ slot' = A.slot
            /\ sends' = A.sends
            /\ fulfilled' = A.fulfilled
            /\ lastOk' = ok
            /\ applied' = ApplyCommand(applied, c, ok)
            /\ unserved' = Unserved(unserved, keyed_db, c)
            /\ lastMut' = [k \in Keys |->
                             IF c.op \in MutationOps /\ Touches(c, k)
                             THEN [id |-> c.id, ok |-> ok] ELSE lastMut[k]]
            /\ cleanDel' = [k \in Keys |->
                              IF c.op \in {WriteOp, WriteAllOp} /\ Touches(c, k) THEN {}
                              ELSE IF c.op = DeleteOp /\ c.key = k
                              THEN cleanDel[k] \cup {[id |-> c.id, ok |-> ok]}
                              ELSE cleanDel[k]]
    /\ channel' = Tail(channel)
    /\ UNCHANGED <<alive, pc, pending, last, issued>>

ProcessWrite == Process(WriteOp)
ProcessWriteAll == Process(WriteAllOp)
ProcessDelete == Process(DeleteOp)
ProcessDeleteAll == Process(DeleteAllOp)
ProcessRead == Process(ReadOp)
ProcessReadAll == Process(ReadAllOp)
ProcessNotifyRead == Process(NotifyReadOp)

\* the ids of the Senders the task owns: in queued commands and in the table
RECURSIVE SeqIds(_)
SeqIds(q) == IF q = <<>> THEN {} ELSE {Head(q)} \cup SeqIds(Tail(q))

OwnedSenders ==
    {channel[i].id : i \in 1..Len(channel)}
        \cup UNION {SeqIds(obligations[k]) : k \in DOMAIN obligations}

\* ActorStops with the Senders of the obligation table leaked, not dropped
ActorStopsLeaksWaiters ==
    /\ alive
    /\ alive' = FALSE
    /\ channel' = <<>>
    /\ obligations' = NoObligations
    /\ slot' = [i \in Ids |->
                  IF (\E j \in 1..Len(channel) : channel[j].id = i) /\ slot[i].st = "empty"
                  THEN Closed ELSE slot[i]]
    /\ UNCHANGED <<keyed_db, sends, pc, pending, last, issued, applied, lastOk,
                   fulfilled, unserved, lastMut, cleanDel>>

\* The task stops at its await point (the runtime shuts down or aborts it):
\* rx and obligations are dropped, and with them every Sender they hold.
ActorStops ==
    /\ alive
    /\ alive' = FALSE
    /\ channel' = <<>>
    /\ obligations' = NoObligations
    /\ slot' = [i \in Ids |-> IF i \in OwnedSenders /\ slot[i].st = "empty"
                              THEN Closed ELSE slot[i]]
    /\ UNCHANGED <<keyed_db, sends, pc, pending, last, issued, applied, lastOk,
                   fulfilled, unserved, lastMut, cleanDel>>

Next ==
    \/ write
    \/ write_all
    \/ remove
    \/ remove_all
    \/ read
    \/ read_all
    \/ notify_read
    \/ Admit
    \/ SendFails
    \/ Receive
    \/ ReceiveFails
    \/ ProcessWrite
    \/ ProcessWriteAll
    \/ ProcessDelete
    \/ ProcessDeleteAll
    \/ ProcessRead
    \/ ProcessReadAll
    \/ ProcessNotifyRead
    \/ ActorStops

Spec == Init /\ [][Next]_vars

\* One turn of the actor's loop, whatever the command.
ActorStep ==
    \/ ProcessWrite
    \/ ProcessWriteAll
    \/ ProcessDelete
    \/ ProcessDeleteAll
    \/ ProcessRead
    \/ ProcessReadAll
    \/ ProcessNotifyRead

\* The program with an actor that keeps being scheduled: while a command is
\* queued and the task runs, rx.recv() returns and the arm is executed (no
\* arm blocks: the backend calls are synchronous, every send is immediate).
LiveSpec == Spec /\ WF_vars(ActorStep)

\* The same program with callers that may abandon the reply they await.
NextWithCancel ==
    \/ Next
    \/ Abandon

SpecWithCancel == Init /\ [][NextWithCancel]_vars

(* ============================ the claims =============================== *)
\* the step in which the actor takes the oldest command and runs its arm
Dequeued == alive /\ alive' /\ channel # <<>> /\ channel' = Tail(channel)

Processing(op) == Dequeued /\ Head(channel).op = op

\* the places <<key, position>> of Sender id in obligation table obl
Places(obl, id) ==
    {p \in UNION {{k} \X (1..Len(obl[k])) : k \in DOMAIN obl} : obl[p[1]][p[2]] = id}

InTable(obl, id) == Places(obl, id) # {}

\* the waiters of key k in table obl, oldest first
Waiters(obl, k) == IF k \in DOMAIN obl THEN obl[k] ELSE <<>>

\* whether command id is still on its way to the actor
InFlight(id) ==
    \/ \E i \in 1..Len(channel) : channel[i].id = id
    \/ \E h \in Handles : pc[h] = "sending" /\ pending[h].id = id

(* ------------------------------- C1 ----------------------------------- *)
\* C1: whatever handles issued the commands and however their calls
\* interleaved, the backend map after the actor has processed a prefix of
\* the queue is the initial map with the mutations (Write, WriteAll, Delete,
\* DeleteAll) of that prefix applied one at a time in the order of their
\* dequeuing: `applied` is that sequential result, computed by ApplyCommand
\* at every dequeue, a command whose backend call failed changing nothing.
C1_BackendIsSequentialResult == keyed_db = applied

\* mutations of two keys issued by different handles were processed, one of
\* them while another handle's command was still queued behind it
C1_Witness ==
    /\ lastMut[1].id # 0
    /\ lastMut[2].id # 0
    /\ lastMut[1].id # lastMut[2].id
    /\ lastMut[1].ok /\ lastMut[2].ok
    /\ channel # <<>>
    /\ Cardinality({h \in Handles : last[h] # NoCall}) >= 2
    /\ \E k \in Keys : keyed_db[k] # None

(* ------------------------------- C2 ----------------------------------- *)
\* C2 (as claimed): a NotifyRead waiter is resolved only (a) by the
\* NotifyRead itself when its key holds a value, or (b) by a successful
\* mutation naming its key; a mutation whose backend call fails resolves no
\* waiter, and after a successful mutation of a key no waiter of that key
\* is left in the table.
C2_ResolvedOnlyByValueOrSuccessfulMutation ==
    [][Dequeued =>
        LET c == Head(channel) IN
        /\ \A i \in 1..Len(fulfilled') :
              c.op \in MutationOps /\ Touches(c, fulfilled'[i].key) /\ lastOk'
        /\ (c.op = NotifyReadOp /\ sends'[c.id] # sends[c.id]) => keyed_db[c.key] # None
        /\ (c.op \in MutationOps /\ ~lastOk') => obligations' = obligations
        /\ (c.op \in MutationOps /\ lastOk') =>
              \A k \in Keys : Touches(c, k) => k \notin DOMAIN obligations'
    ]_vars

(* ------------------------------- C3 ----------------------------------- *)
\* C3 (as claimed): when the backend lookup of a NotifyRead fails, the error
\* is sent to the caller's reply slot and no waiter is registered for it.
C3_LookupErrorIsReplied ==
    [][(Processing(NotifyReadOp) /\ ~lastOk') =>
        /\ slot'[Head(channel).id] = Err
        /\ ~InTable(obligations', Head(channel).id)
    ]_vars

(* ------------------------------- C4 ----------------------------------- *)
\* C4 (as claimed): a waiter registered while its key was absent is resolved
\* by the next Write(k, v) processed with Some(v) and by the next Delete(k)
\* processed with None, whichever of the two is processed first.
C4_NextWriteOrDeleteResolves ==
    [][(Processing(WriteOp) \/ Processing(DeleteOp)) =>
        LET c == Head(channel) IN
        \A w \in unserved : w[2] = c.key =>
            /\ slot'[w[1]] = Ok(<<IF c.op = WriteOp THEN c.val ELSE None>>)
            /\ sends'[w[1]] = sends[w[1]] + 1
    ]_vars

\* C4 (amended): a waiter registered while its key was absent and still
\* pending (no successful WriteAll or DeleteAll naming the key has resolved
\* it meanwhile) is resolved by the next Write(k, v) processed with Some(v)
\* and by the next Delete(k) processed with None, whichever comes first; a
\* waiter that a batch resolved before received None from that batch.
C4_NextWriteOrDeleteResolvesPending ==
    [][(Processing(WriteOp) \/ Processing(DeleteOp)) =>
        LET c == Head(channel) IN
        \A w \in unserved : w[2] = c.key =>
            IF InTable(obligations, w[1])
            THEN /\ slot'[w[1]] = Ok(<<IF c.op = WriteOp THEN c.val ELSE None>>)
                 /\ sends'[w[1]] = sends[w[1]] + 1
                 /\ ~InTable(obligations', w[1])
            ELSE /\ slot[w[1]] \in {Ok(<<None>>), Taken}
                 /\ sends[w[1]] = 1
                 /\ slot'[w[1]] = slot[w[1]]
    ]_vars

\* a Write has just resolved with its value a waiter that was registered
\* while the key was absent
C4_Witness ==
    /\ fulfilled # <<>>
    /\ \E h \in Handles, v \in Values :
          /\ pc[h] = "awaiting"
          /\ pending[h].op = NotifyReadOp
          /\ pending[h].id = fulfilled[1].id
          /\ slot[pending[h].id] = Ok(<<v>>)
          /\ lastMut[pending[h].key].id > pending[h].id

C6_WaiterPendingOnceOrFulfilledOnce ==
    alive =>
        /\ \A h \in Handles :
              (pc[h] = "awaiting" /\ pending[h].op = NotifyReadOp /\ ~InFlight(pending[h].id)) =>
                 LET id == pending[h].id IN
                 \/ /\ Cardinality(Places(obligations, id)) = 1
                    /\ sends[id] = 0
                    /\ slot[id] = Empty
                 \/ /\ ~InTable(obligations, id)
                    /\ sends[id] = 1
                    /\ slot[id].st = "ok"
        /\ \A id \in Ids :
              /\ sends[id] <= 1
              /\ InTable(obligations, id) =>
                    /\ Cardinality(Places(obligations, id)) = 1
                    /\ sends[id] = 0
                    /\ slot[id] = Empty

\* two pending waiters of one key have just been resolved by one batch,
\* each exactly once
C6_Witness ==
    /\ alive
    /\ Len(fulfilled) = 2
    /\ fulfilled[1].key = fulfilled[2].key
    /\ \A i \in 1..2 :
          /\ sends[fulfilled[i].id] = 1
          /\ slot[fulfilled[i].id] = Ok(<<None>>)
          /\ ~InTable(obligations, fulfilled[i].id)
    /\ \E h \in Handles :
          /\ pc[h] = "awaiting"
          /\ pending[h].op = WriteAllOp
          /\ slot[pending[h].id] = Ok(<<>>)

(* ------------------------------- C7 ----------------------------------- *)
\* the keys of a batch in the order of their first occurrence
RECURSIVE FirstKeys(_, _)
FirstKeys(items, seen) ==
    IF items = <<>> THEN <<>>
    ELSE IF Head(items)[1] \in seen THEN FirstKeys(Tail(items), seen)
    ELSE <<Head(items)[1]>> \o FirstKeys(Tail(items), seen \cup {Head(items)[1]})

\* the keys command c resolves the waiters of, in order
ResolvedKeys(c) ==
    IF c.op \in {WriteOp, DeleteOp} THEN <<c.key>> ELSE FirstKeys(c.items, {})

\* the waiters of the keys ks in table obl: key by key, oldest waiter first
RECURSIVE InRegistrationOrder(_, _)
InRegistrationOrder(obl, ks) ==
    IF ks = <<>> THEN <<>>
    ELSE [i \in 1..Len(Waiters(obl, Head(ks))) |->
             [id |-> Waiters(obl, Head(ks))[i], key |-> Head(ks)]]
         \o InRegistrationOrder(obl, Tail(ks))

\* C7: a NotifyRead that is not answered at once joins the back of its key's
\* queue, so the queue of a key lists its waiters in registration order; a
\* resolving mutation (a Write or Delete, or a WriteAll or DeleteAll whose
\* batch succeeds) resolves every waiter of every key it names, each once,
\* the waiters of one key in registration order and the keys in the order
\* in which the batch first names them.
C7_ResolvedInRegistrationOrder ==
    [][Dequeued =>
        LET c == Head(channel) IN
        /\ (c.op = NotifyReadOp /\ sends'[c.id] = sends[c.id]) =>
              /\ Waiters(obligations', c.key) = Append(Waiters(obligations, c.key), c.id)
              /\ \A k \in Keys \ {c.key} : Waiters(obligations', k) = Waiters(obligations, k)
        /\ (c.op \in {WriteOp, DeleteOp} \/ (c.op \in {WriteAllOp, DeleteAllOp} /\ lastOk')) =>
              /\ fulfilled' = InRegistrationOrder(obligations, ResolvedKeys(c))
              /\ \A i \in 1..Len(fulfilled') :
                    /\ sends'[fulfilled'[i].id] = 1
                    /\ slot'[fulfilled'[i].id].st = "ok"
              /\ \A k \in Keys : Touches(c, k) => k \notin DOMAIN obligations'
    ]_vars

\* one Write has just resolved with its value two waiters of the same key
C7_Witness ==
    /\ Len(fulfilled) = 2
    /\ fulfilled[1].key = fulfilled[2].key
    /\ fulfilled[1].id # fulfilled[2].id
    /\ slot[fulfilled[1].id].val # <<None>>
    /\ \A i \in 1..2 : slot[fulfilled[i].id].st = "ok" /\ sends[fulfilled[i].id] = 1

(* ------------------------------- C8 ----------------------------------- *)
\* C8: a WriteAll or DeleteAll whose backend batch call fails changes no key
\* of the backend map and answers its caller with the error; one whose call
\* succeeds leaves every key of the batch written (with the value of the
\* last pair that names it) or removed, every other key as it was, and
\* answers Ok(()).  A Read or ReadAll never changes the map and, unless its
\* lookup fails, answers with the values the map holds.
C8_BatchAllOrNothing ==
    [][Dequeued =>
        LET c == Head(channel) IN
        /\ (c.op \in {WriteAllOp, DeleteAllOp} /\ ~lastOk') =>
              /\ keyed_db' = keyed_db
              /\ slot'[c.id] = Err
              /\ sends'[c.id] = 1
        /\ (c.op \in {WriteAllOp, DeleteAllOp} /\ lastOk') =>
              /\ \A k \in Keys :
                    keyed_db'[k] = IF ~Touches(c, k) THEN keyed_db[k]
                                   ELSE IF c.op = WriteAllOp THEN LastVal(c.items, k)
                                   ELSE None
              /\ slot'[c.id] = Ok(<<>>)
              /\ sends'[c.id] = 1
        /\ c.op \in {ReadOp, ReadAllOp} => keyed_db' = keyed_db
        /\ (c.op = ReadOp /\ lastOk') => slot'[c.id] = Ok(<<keyed_db[c.key]>>)
        /\ (c.op = ReadAllOp /\ lastOk') =>
              slot'[c.id] = Ok([i \in 1..Len(c.items) |-> keyed_db[c.items[i][1]]])
    ]_vars

\* a WriteAll failed after a key had been written: its caller holds the
\* error and the key still holds the value written before
C8_Witness ==
    /\ ~lastOk
    /\ \E h \in Handles :
          /\ pc[h] = "awaiting"
          /\ pending[h].op = WriteAllOp
          /\ slot[pending[h].id] = Err
          /\ \E k \in Keys :
                /\ keyed_db[k] # None
                /\ lastMut[k].id = pending[h].id

(* ------------------------------- C9 ----------------------------------- *)
\* C9 (as claimed): a read(k) that a handle calls right after its remove(k)
\* returns Ok(None) when no write of k is processed between the two.
C9_ReadAfterRemoveIsNone ==
    [][Processing(ReadOp) =>
        LET c == Head(channel) IN
        (c.after.op = DeleteOp /\ \E d \in cleanDel[c.key] : d.id = c.after.id) =>
            slot'[c.id] = Ok(<<None>>)
    ]_vars

\* C9 (amended): a read(k) that a handle calls right after its remove(k)
\* returns Ok(None) when no write of k is processed between the two, the
\* backend remove of the Delete succeeded and the backend lookup of the Read
\* succeeds.
C9_ReadAfterRemoveIsNoneIfBackendOk ==
    [][Processing(ReadOp) =>
        LET c == Head(channel) IN
        (/\ c.after.op = DeleteOp
         /\ [id |-> c.after.id, ok |-> TRUE] \in cleanDel[c.key]
         /\ lastOk') =>
            slot'[c.id] = Ok(<<None>>)
    ]_vars

\* the third command of a run, a read that follows the same handle's remove
\* of the key, has been answered Ok(None); the remove was not the first
\* command to name the key's handle
C9_Witness ==
    \E h \in Handles :
        /\ pc[h] = "awaiting"
        /\ pending[h].op = ReadOp
        /\ pending[h].after.op = DeleteOp
        /\ pending[h].after.id = 2
        /\ [id |-> 2, ok |-> TRUE] \in cleanDel[pending[h].key]
        /\ slot[pending[h].id] = Ok(<<None>>)

(* ------------------------------- C10 ---------------------------------- *)
\* C10 (as claimed): a read(k) that a handle calls right after its
\* write(k, v) returns Ok(Some(v)) when no other mutation of k is processed
\* between the two.
C10_ReadAfterWriteIsValue ==
    [][Processing(ReadOp) =>
        LET c == Head(channel) IN
        (c.after.op = WriteOp /\ lastMut[c.key].id = c.after.id) =>
            slot'[c.id] = Ok(<<c.after.val>>)
    ]_vars

\* C10 (amended): a read(k) that a handle calls right after its write(k, v)
\* returns Ok(Some(v)) when no other mutation of k is processed between the
\* two, the backend insert of the Write succeeded and the backend lookup of
\* the Read succeeds.
C10_ReadAfterWriteIsValueIfBackendOk ==
    [][Processing(ReadOp) =>
        LET c == Head(channel) IN
        (/\ c.after.op = WriteOp
         /\ lastMut[c.key] = [id |-> c.after.id, ok |-> TRUE]
         /\ lastOk') =>
            slot'[c.id] = Ok(<<c.after.val>>)
    ]_vars

\* a read that follows the same handle's write(k, v) has been answered
\* Some(v), the write having replaced a value another command had stored
C10_Witness ==
    \E h \in Handles :
        /\ pc[h] = "awaiting"
        /\ pending[h].op = ReadOp
        /\ pending[h].after.op = WriteOp
        /\ pending[h].after.id = 2
        /\ lastMut[pending[h].key] = [id |-> 2, ok |-> TRUE]
        /\ slot[pending[h].id] = Ok(<<pending[h].after.val>>)

(* ------------------------------- C11 ---------------------------------- *)
\* C11: once the actor has stopped, nothing enters the channel any more, and
\* a handle that calls an operation (write, write_all, remove, remove_all,
\* read, read_all, notify_read) or whose send was suspended on a full
\* channel leaves that send by panicking only: it neither goes on to await
\* a reply nor returns.  A suspended send does not stay blocked: as long as
\* the handle is suspended after the stop, the failure of its send is
\* enabled.
C11_SendAfterStopPanics ==
    /\ [](\A h \in Handles : (~alive /\ pc[h] = "sending") => ENABLED SendFails)
    /\ [][~alive =>
            /\ channel' = <<>>
            /\ \A h \in Handles :
                  (pc[h] \in {"idle", "sending"} /\ pc'[h] # pc[h]) => pc'[h] = "panicked"
        ]_vars

\* the actor stopped with the first two commands still queued; the handle
\* of the third command, which found the channel full or the actor gone,
\* has panicked in its send
C11_Witness ==
    /\ ~alive
    /\ issued = MaxCmds
    /\ unserved = {}
    /\ lastOk
    /\ slot[1] = Closed
    /\ slot[2] = Closed
    /\ slot[MaxCmds].st \in {"empty", "unused"}
    /\ \E h \in Handles : pc[h] = "panicked" /\ last[h] # NoCall /\ pending[h] = NoCmd
    /\ Cardinality({h \in Handles : pc[h] = "awaiting"}) = 2

(* ------------------------------- C12 ---------------------------------- *)
\* C12: when the actor stops, the reply slot of every caller that awaits a
\* reply not yet sent (its command is queued, or its NotifyRead waiter sits
\* in the obligation table) is closed, so that after the stop no awaiting
\* caller has an empty slot to hang on; a closed slot never turns into a
\* reply, and the caller that awaits it leaves the await by panicking only,
\* which no Ok(..) result, Ok(None) included, can be taken for.
C12_StopFailsAwaitingCallers ==
    /\ [](~alive => \A h \in Handles :
                       pc[h] = "awaiting" => slot[pending[h].id].st # "empty")
    /\ [][(alive /\ ~alive') =>
            \A h \in Handles :
                (pc[h] = "awaiting" /\ slot[pending[h].id] = Empty) =>
                    slot'[pending[h].id] = Closed
        ]_vars
    /\ [][\A i \in Ids : slot[i] = Closed => slot'[i] = Closed]_vars
    /\ [][\A h \in Handles :
            (pc[h] = "awaiting" /\ slot[pending[h].id] = Closed /\ pc'[h] # pc[h]) =>
                pc'[h] = "panicked"
        ]_vars

\* a single notify_read was processed while its key was absent, the actor
\* stopped with the waiter in the obligation table, and the caller panicked
C12_Witness ==
    /\ ~alive
    /\ issued = 1
    /\ unserved # {}
    /\ slot[1] = Closed
    /\ sends[1] = 0
    /\ \E h \in Handles : pc[h] = "panicked"

(* ------------------------------- C13 ---------------------------------- *)
\* C13 (under SpecWithCancel): a send to a slot whose Receiver was dropped
\* is a no-op.  Whatever slots were abandoned, the actor that takes a
\* command stays alive and goes on to the next one, applies the backend
\* effect of the command, leaves every abandoned slot as it is, calls send
\* once on the reply slot of a WriteAll, DeleteAll, Read or ReadAll, and a
\* resolving mutation calls send once on every waiter of every key it
\* names, oldest first: the waiters behind an abandoned one receive the
\* value as if no slot had been abandoned.
C13_AbandonedSlotIsNoOp ==
    [][Dequeued =>
        LET c == Head(channel) IN
        /\ alive'
        /\ channel' = Tail(channel)
        /\ keyed_db' = ApplyCommand(keyed_db, c, lastOk')
        /\ \A i \in Ids : slot[i] = Abandoned => slot'[i] = Abandoned
        /\ (c.op \in ReplyOps \ {NotifyReadOp}) =>
              /\ sends'[c.id] = 1
              /\ slot[c.id] # Abandoned => slot'[c.id].st \in {"ok", "err"}
        /\ (c.op \in {WriteOp, DeleteOp} \/ (c.op \in {WriteAllOp, DeleteAllOp} /\ lastOk')) =>
              /\ fulfilled' = InRegistrationOrder(obligations, ResolvedKeys(c))
              /\ \A i \in 1..Len(fulfilled') :
                    /\ sends'[fulfilled'[i].id] = 1
                    /\ slot'[fulfilled'[i].id] =
                          IF slot[fulfilled'[i].id] = Abandoned THEN Abandoned
                          ELSE Ok(<<IF c.op = WriteOp THEN c.val ELSE None>>)
              /\ \A k \in Keys : Touches(c, k) => k \notin DOMAIN obligations'
    ]_vars

\* a Write has just resolved two waiters of its key: the older one had been
\* abandoned, the one behind it holds the written value, and the key holds
\* it in the backend
C13_Witness ==
    /\ alive
    /\ Len(fulfilled) = 2
    /\ fulfilled[1].key = fulfilled[2].key
    /\ slot[fulfilled[1].id] = Abandoned
    /\ sends[fulfilled[1].id] = 1
    /\ sends[fulfilled[2].id] = 1
    /\ keyed_db[fulfilled[2].key] # None
    /\ slot[fulfilled[2].id] = Ok(<<keyed_db[fulfilled[2].key]>>)

(* ------------------------------- C14 ---------------------------------- *)
\* C14: the channel never holds more than QueueCap commands (its capacity,
\* 100 in the code).  A call is suspended only when it finds the channel
\* full, and then the channel is left as it is and the handle keeps the
\* command; while the actor is alive a suspended handle keeps its command
\* unchanged until the step that appends exactly that command to the back
\* of the channel, a step that is enabled as soon as the actor has taken a
\* command and the channel has room.  While the actor is alive the channel
\* changes only by a command appended at the back or by the actor taking
\* the oldest one: no queued command is dropped or overtaken.
C14_QueueBoundedAndLossless ==
    /\ [](Len(channel) <= QueueCap)
    /\ []((alive /\ Len(channel) < QueueCap /\ \E h \in Handles : pc[h] = "sending")
              => ENABLED Admit)
    /\ [][\A h \in Handles :
            (pc[h] # "sending" /\ pc'[h] = "sending") =>
                /\ Len(channel) = QueueCap
                /\ channel' = channel
                /\ pending'[h].id = issued'
                /\ pending'[h].op \in ReplyOps \cup MutationOps
        ]_vars
    /\ [][\A h \in Handles :
            (pc[h] = "sending" /\ alive') =>
                \/ pc'[h] = "sending" /\ pending'[h] = pending[h]
                \/ /\ Len(channel) < QueueCap
                   /\ channel' = Append(channel, AsCommand(pending[h]))
                   /\ pc'[h] = IF pending[h].op \in ReplyOps THEN "awaiting" ELSE "idle"
        ]_vars
    /\ [][alive' =>
            \/ channel' = channel
            \/ channel # <<>> /\ channel' = Tail(channel)
            \/ /\ Len(channel') = Len(channel) + 1
               /\ SubSeq(channel', 1, Len(channel)) = channel
               /\ channel'[Len(channel')].id \notin {channel[i].id : i \in 1..Len(channel)}
        ]_vars

\* a call found the channel full and was suspended, the actor has taken the
\* oldest command since, and the suspended command is about to be admitted
\* behind the one still queued
C14_Witness ==
    /\ alive
    /\ Len(channel) = QueueCap - 1
    /\ issued = QueueCap + 1
    /\ \E h \in Handles :
          /\ pc[h] = "sending"
          /\ pending[h].id = issued
          /\ \A i \in 1..Len(channel) : channel[i].id < pending[h].id

(* ------------------------------- C15 ---------------------------------- *)
\* C15: when the backend call of a Write(k, v) or of a Delete(k) fails, no
\* reply slot receives the error, and the obligation table and the reply
\* slots end as they end when the call succeeds: every waiter of k is
\* popped, oldest first, and sent one reply, Some(v) by the Write and None
\* by the Delete, and k has no entry in the table afterwards.
C15_FailedWriteOrDeleteStillResolves ==
    [][((Processing(WriteOp) \/ Processing(DeleteOp)) /\ ~lastOk') =>
        LET c == Head(channel)
            S == Arm(ActorState(keyed_db, obligations, slot, sends, <<>>), c, TRUE)
        IN  /\ \A i \in Ids : slot'[i] = Err => slot[i] = Err
            /\ obligations' = S.obligations
            /\ slot' = S.slot
            /\ sends' = S.sends
            /\ fulfilled' = InRegistrationOrder(obligations, <<c.key>>)
            /\ \A i \in 1..Len(fulfilled') :
                  /\ slot'[fulfilled'[i].id] = Ok(<<IF c.op = WriteOp THEN c.val ELSE None>>)
                  /\ sends'[fulfilled'[i].id] = 1
            /\ c.key \notin DOMAIN obligations'
    ]_vars

\* a Write whose insert failed has just resolved a waiter with its value:
\* the waiter holds Some(v) and the backend holds nothing for the key
C15_Witness ==
    /\ ~lastOk
    /\ fulfilled # <<>>
    /\ slot[fulfilled[1].id].st = "ok"
    /\ slot[fulfilled[1].id].val # <<None>>
    /\ keyed_db[fulfilled[1].key] = None
    /\ lastMut[fulfilled[1].key].ok = FALSE

(* ------------------------------- C16 ---------------------------------- *)
\* C16: a WriteAll whose backend call succeeds resolves every waiter of
\* every key of the batch with Ok(None), although the key now holds the
\* value written, and leaves no entry for these keys; and a WriteAll,
\* successful or failed, sends the outcome of the backend call to its
\* caller's slot, once.
C16_WriteAllResolvesWithNone ==
    [][Processing(WriteAllOp) =>
        LET c == Head(channel) IN
        /\ sends[c.id] = 0
        /\ sends'[c.id] = 1
        /\ slot'[c.id] = IF lastOk' THEN Ok(<<>>) ELSE Err
        /\ lastOk' =>
              /\ fulfilled' = InRegistrationOrder(obligations, ResolvedKeys(c))
              /\ \A k \in Keys : Touches(c, k) =>
                    /\ keyed_db'[k] = LastVal(c.items, k)
                    /\ k \notin DOMAIN obligations'
                    /\ \A i \in 1..Len(Waiters(obligations, k)) :
                          /\ slot'[Waiters(obligations, k)[i]] = Ok(<<None>>)
                          /\ sends'[Waiters(obligations, k)[i]] = 1
    ]_vars

\* a successful WriteAll has just resolved a waiter of a key it wrote: the
\* waiter holds None, the key holds a value, the caller holds Ok(())
C16_Witness ==
    /\ lastOk
    /\ fulfilled # <<>>
    /\ slot[fulfilled[1].id] = Ok(<<None>>)
    /\ keyed_db[fulfilled[1].key] # None
    /\ \E h \in Handles :
          /\ pc[h] = "awaiting"
          /\ pending[h].op = WriteAllOp
          /\ slot[pending[h].id] = Ok(<<>>)
          /\ sends[pending[h].id] = 1
          /\ lastMut[fulfilled[1].key].id = pending[h].id

(* ------------------------------- C17 ---------------------------------- *)
\* C17: a WriteAll or DeleteAll whose backend call fails leaves the
\* obligation table as it was, every queue in its order, and resolves no
\* waiter: the only slot it sends to is its caller's.
C17_FailedBatchKeepsWaiters ==
    [][((Processing(WriteAllOp) \/ Processing(DeleteAllOp)) /\ ~lastOk') =>
        /\ obligations' = obligations
        /\ fulfilled' = <<>>
        /\ \A i \in Ids \ {Head(channel).id} :
              slot'[i] = slot[i] /\ sends'[i] = sends[i]
    ]_vars

\* a batch naming a key has just failed while two waiters of the key were
\* pending: its caller holds the error, the two waiters are still queued
\* in the order of their registration
C17_Witness ==
    /\ ~lastOk
    /\ \E h \in Handles, k \in Keys :
          /\ pc[h] = "awaiting"
          /\ pending[h].op \in {WriteAllOp, DeleteAllOp}
          /\ slot[pending[h].id] = Err
          /\ lastMut[k].id = pending[h].id
          /\ Waiters(obligations, k) = <<1, 2>>
          /\ slot[1] = Empty
          /\ slot[2] = Empty

(* ------------------------------- C18 ---------------------------------- *)
\* C18: in every reachable state every key that has an entry in the
\* obligation table has at least one waiter in it (an entry is made by the
\* push of its first waiter and taken out whole when a mutation resolves
\* its waiters), and the entries are entries of keys.
C18_NoEmptyQueueRetained ==
    /\ DOMAIN obligations \subseteq Keys
    /\ \A k \in DOMAIN obligations : obligations[k] # <<>>

\* the waiter of one key has just been resolved and the entry of the key is
\* gone, while another key still has its entry and its waiter
C18_Witness ==
    /\ fulfilled # <<>>
    /\ fulfilled[1].key \notin DOMAIN obligations
    /\ \E k \in DOMAIN obligations : Len(obligations[k]) = 1 /\ slot[obligations[k][1]] = Empty

(* ------------------------------- C19 ---------------------------------- *)
\* whether command id, of a kind that is always answered, is in the channel
Accepted(id) ==
    \E i \in 1..Len(channel) :
        /\ channel[i].id = id
        /\ channel[i].op \in {ReadOp, ReadAllOp, WriteAllOp, DeleteAllOp}

\* Under LiveSpec every Read, ReadAll, WriteAll and DeleteAll that is in the
\* channel is sent its reply unless the actor stops first, and no slot is
\* ever sent to twice.
C19_AcceptedCommandIsReplied ==
    /\ \A id \in Ids : Accepted(id) ~> (~alive \/ sends[id] = 1)
    /\ [](\A id \in Ids : sends[id] <= 1)

\* C19 (as claimed, under LiveSpec): while the actor is alive and scheduled,
\* every Read, ReadAll, WriteAll and DeleteAll accepted into the channel
\* eventually receives exactly one reply, whatever the backend outcome and
\* whatever is queued before it; and only a NotifyRead stays unanswered,
\* and only while its key is absent and unmutated: every waiter in the
\* obligation table is a waiter of a key that holds no value and has been
\* neither written nor deleted since the waiter was registered.
C19_OnlyAbsentKeyWaitersUnanswered ==
    /\ C19_AcceptedCommandIsReplied
    /\ [](alive =>
            \A k \in DOMAIN obligations :
                /\ keyed_db[k] = None
                /\ \A i \in 1..Len(obligations[k]) : <<obligations[k][i], k>> \in unserved)

(* ------------------------------- C20 ---------------------------------- *)
\* no key with a waiter in the obligation table holds a value
NoLostWakeUp == \A k \in DOMAIN obligations : keyed_db[k] = None

\* C20: the table starts empty, and every step other than a NotifyRead
\* whose backend lookup fails keeps NoLostWakeUp: a Write, a WriteAll, a
\* Delete, a DeleteAll, successful or failed, a Read, a ReadAll, a
\* NotifyRead whose lookup succeeds, a call, a reply received, the stop of
\* the actor.  So in a run in which no lookup of a NotifyRead fails no
\* waiter is ever pending on a key whose value is stored.
C20_NoLostWakeUp ==
    /\ NoLostWakeUp
    /\ [][(NoLostWakeUp /\ ~(Processing(NotifyReadOp) /\ ~lastOk')) => NoLostWakeUp']_vars

\* a waiter is pending on a key that a failed batch named after the waiter
\* was registered, while the other key has been written: the key of the
\* waiter holds no value
C20_Witness ==
    /\ alive
    /\ \E k \in DOMAIN obligations, j \in Keys :
          /\ keyed_db[k] = None
          /\ lastMut[k].id > obligations[k][1]
          /\ ~lastMut[k].ok
          /\ keyed_db[j] # None
          /\ lastMut[j].id > lastMut[k].id

====
